---- MODULE Spec2Model ----
(***************************************************************************)
(* get-qr-mail: an Express service that runs the OAuth2 authorization-code *)
(* flow for named users, keeps one token file per user and serves the      *)
(* user's filtered mailbox as JSON.                                        *)
(*                                                                         *)
(* Two per-user variants and the single-client variant are modelled:       *)
(*   part_001  (port 5001)  synchronous fs: readFileSync / writeFileSync   *)
(*   part_000  (port 4000)  fs.promises:    readFile / writeFile           *)
(*   server.js (port 4000)  one client in the module variable authClient   *)
(*                                                                         *)
(* Spec       is the process from its start: the startup load of           *)
(*            credentials.json of both per-user variants, then the request *)
(*            handlers of the variant that reaches app.listen.             *)
(* SpecAsync  is the request handlers of part_000 taken from the listening *)
(*            state they are written for (its startup load, as written,    *)
(*            never reaches app.listen: see Startup).                      *)
(* SpecMail   is /qr/:name of part_001 with getLatestEmails taken one call *)
(*            to the mailbox per step (Spec takes it in one step).         *)
(* SpecSingle is /qr/:name of server.js with getAuthClient taken one await *)
(*            per step.                                                    *)
(* SpecLive   is the handlers of part_001 for one name, with every awaited *)
(*            call settling (weak fairness of each request's next step).   *)
(*                                                                         *)
(* A string is a sequence of one-character strings; "token-" and ".json"   *)
(* are kept as single symbols (they hold no "/" and are never "." or       *)
(* "..").                                                                  *)
(***************************************************************************)
EXTENDS Naturals, Sequences, FiniteSets, TLC

\* ------------------------------------------------------------------ bounds
\* Number of requests that may be in flight at the same time.
MaxReqs == 2
\* Longest listing the mailbox returns in the model.
MaxMsgs == 1
\* Longest listing when getLatestEmails is taken call by call.
MaxListing == 3
\* The count of completed writes of token.json stops here.
MaxWrites == 2

\* ------------------------------------------------------------- identities
\* req.query.code / req.query.state when the parameter is not in the query.
Undefined == <<"undefined">>
\* The empty string.
Empty == <<>>

UserA == <<"a">>
\* An identity whose token path normalises onto UserA's.
UserDots == <<"b", "/", ".", ".", "/", "token-", "a">>
\* An identity that holds an escape sequence literally.
UserPct == <<"%", "2", "F">>
Users == {UserA, UserDots, UserPct}

\* ------------------------------------------------------------------ paths
RECURSIVE SplitSlash(_, _, _)
\* s.split('/'): acc the finished segments, cur the segment being read.
SplitSlash(s, acc, cur) ==
    IF s = <<>> THEN Append(acc, cur)
    ELSE IF Head(s) = "/" THEN SplitSlash(Tail(s), Append(acc, cur), <<>>)
    ELSE SplitSlash(Tail(s), acc, Append(cur, Head(s)))

RECURSIVE NormalizeSegs(_, _, _)
\* path.normalize on the part below __dirname: "" and "." are dropped, ".."
\* removes the segment before it, or climbs above __dirname when none is left.
NormalizeSegs(segs, up, out) ==
    IF segs = <<>> THEN [up |-> up, segs |-> out]
    ELSE LET g == Head(segs) IN
         IF g = <<>> \/ g = <<".">> THEN NormalizeSegs(Tail(segs), up, out)
         ELSE IF g = <<".", ".">>
              THEN IF out = <<>>
                   THEN NormalizeSegs(Tail(segs), up + 1, out)
                   ELSE NormalizeSegs(Tail(segs), up, SubSeq(out, 1, Len(out) - 1))
              ELSE NormalizeSegs(Tail(segs), up, Append(out, g))

\* path.join(__dirname, `token-${name}.json`), relative to __dirname.
getTokenPathForUser(name) ==
    NormalizeSegs(SplitSlash(<<"token-">> \o name \o <<".json">>, <<>>, <<>>), 0, <<>>)

Keys == {getTokenPathForUser(u) : u \in Users}

\* ------------------------------------------------------- query-string codec
\* querystring.escape of one character (generateAuthUrl -> querystring.stringify).
EscapeChar(c) ==
    IF c = "/" THEN <<"%", "2", "F">>
    ELSE IF c = "%" THEN <<"%", "2", "5">>
    ELSE <<c>>

RECURSIVE Encode(_)
Encode(s) == IF s = <<>> THEN <<>> ELSE EscapeChar(Head(s)) \o Encode(Tail(s))

RECURSIVE Decode(_)
\* decodeURIComponent as the query parser of Express applies it to a value.
Decode(s) ==
    IF s = <<>> THEN <<>>
    ELSE IF Head(s) = "%" /\ Len(s) >= 3 /\ s[2] = "2" /\ s[3] = "F"
         THEN <<"/">> \o Decode(SubSeq(s, 4, Len(s)))
    ELSE IF Head(s) = "%" /\ Len(s) >= 3 /\ s[2] = "2" /\ s[3] = "5"
         THEN <<"%">> \o Decode(SubSeq(s, 4, Len(s)))
    ELSE <<Head(s)>> \o Decode(Tail(s))

\* req.query.<param>: absent stays undefined, a present value is decoded.
QueryParam(raw) == IF raw = Undefined THEN Undefined ELSE Decode(raw)

\* !x for a query parameter: undefined and "" are falsy.
Falsy(x) == x = Undefined \/ x = Empty

\* ------------------------------------------------------------ token JSON
Undef == "undefined"
AccessTokens == {"at1"}
RefreshTokens == {"rt1"}
\* What a successful exchange may return: refresh_token is optional.
Grants == [access_token : AccessTokens, refresh_token : RefreshTokens \cup {Undef}]
\* credentials of a fresh OAuth2 client: {}.
EmptyCreds == [access_token |-> Undef, refresh_token |-> Undef]

Open == <<"{", "">>
Close == <<"}", "">>

\* A serialisation that loses the refresh token.
JSONstringifyAccessOnly(t) ==
    <<Open>>
    \o (IF t.access_token = Undef THEN <<>> ELSE << <<"access_token", t.access_token>> >>)
    \o <<Close>>

\* JSON.stringify(tokens, null, 2): members whose value is undefined are left out.
JSONstringify(t) ==
    <<Open>>
    \o (IF t.access_token = Undef THEN <<>> ELSE << <<"access_token", t.access_token>> >>)
    \o (IF t.refresh_token = Undef THEN <<>> ELSE << <<"refresh_token", t.refresh_token>> >>)
    \o <<Close>>

\* Whether JSON.parse accepts the text (an empty or cut text is a SyntaxError).
Parses(d) == Len(d) >= 2 /\ d[1] = Open /\ d[Len(d)] = Close

Member(d, k) ==
    IF \E i \in 1..Len(d) : d[i][1] = k
    THEN d[CHOOSE i \in 1..Len(d) : d[i][1] = k][2]
    ELSE Undef

JSONparse(d) ==
    [access_token |-> Member(d, "access_token"), refresh_token |-> Member(d, "refresh_token")]

\* ------------------------------------------------------------------- files
NoFile == [exists |-> FALSE, data |-> <<>>]
\* A file opened with flag 'w' whose data has not been written.
Truncated == [exists |-> TRUE, data |-> <<>>]
FileOf(t) == [exists |-> TRUE, data |-> JSONstringify(t)]
Files == {NoFile, Truncated} \cup {FileOf(t) : t \in Grants}

\* ------------------------------------------------------------------- state
VARIABLES
    variant,      \* which server file runs: "part_000" or "part_001"
    phase,        \* "starting", "listening", "exited" (process.exit(1)) or
                  \* "crashed" (ended by an unhandled rejection)
    credFile,     \* credentials.json on disk: "missing", "malformed", "wellformed"
    credentials,  \* the module variable: "null" or "loaded"
    store,        \* the token files, by normalised path
    req,          \* the requests in flight and the last response of each slot;
                  \* json is what res.json was given: "none" (res.send or
                  \* res.redirect answered), "array", "message" ({message}) or
                  \* "envelope" ({message, error}); body is the array;
                  \* tokens is the result of getToken, which the client also takes;
                  \* a finished request keeps of its locals what it answered with;
                  \* raw is the state parameter as it stood in the query string
    issued,       \* history: whether any consent redirect was ever sent
    saved,        \* history: the values of state under which a grant was written
    mail,         \* the locals of each slot's getLatestEmails call
    authClient,   \* server.js: the module variable authClient
    tokenJson,    \* server.js: token.json on disk
    writes        \* history: the writes of token.json that have completed

\* What the handlers of the per-user variants, taken one call of
\* getLatestEmails per step, never touch.
aux == <<mail, authClient, tokenJson, writes>>

vars == <<variant, phase, credFile, credentials, store, req, issued, saved, aux>>

Variants == {"part_000", "part_001"}
Slots == 1..MaxReqs

NoUrl == [access_type |-> "", prompt |-> "", state |-> Empty]

Idle ==
    [kind |-> "none", name |-> Empty, code |-> Empty, raw |-> Empty, pc |-> "idle",
     client |-> EmptyCreds, tokens |-> EmptyCreds, status |-> 0,
     url |-> NoUrl, json |-> "none", body |-> <<>>, ops |-> {}]

\* A slot takes a new request when it holds none or a finished one; a new
\* request takes the first such slot.
Free(r) ==
    /\ req[r].pc \in {"idle", "done"}
    /\ \A o \in Slots : o < r => req[o].pc \notin {"idle", "done"}

\* ----------------------------------------------------------------- startup
\* fs.readFileSync(path, 'utf8') returns the text or throws; fs.readFile of
\* fs.promises returns a Promise, whatever the file is.
ReadCredentials(v, file) ==
    IF v = "part_000" THEN "promise"
    ELSE IF file = "missing" THEN "throws"
    ELSE file

\* JSON.parse(data): a Promise is converted to "[object Promise]", which is
\* not JSON; only the well-formed text parses.
ParsesCredentials(data) == data = "wellformed"

\* The try block at the top of the file, then app.listen.
Startup ==
    /\ phase = "starting"
    /\ IF ParsesCredentials(ReadCredentials(variant, credFile))
       THEN credentials' = "loaded" /\ phase' = "listening"
       ELSE credentials' = credentials /\ phase' = "exited"
    /\ UNCHANGED <<variant, credFile, store, req, issued, saved, aux>>

\* ---------------------------------------------------------------- handlers
\* createOAuth2ClientForUser: a new client, with the token file's content as
\* its credentials when the file can be read and parsed; any failure is ignored.
createOAuth2ClientForUser(st, name) ==
    LET f == st[getTokenPathForUser(name)] IN
    IF f.exists /\ Parses(f.data) THEN JSONparse(f.data) ELSE EmptyCreds

\* The gate of /qr/:name: !credentials || !credentials.refresh_token.
NotAuthenticated(client) ==
    client.refresh_token = Undef \/ client.refresh_token = ""

\* A state that is escaped once more before generateAuthUrl escapes it.
StateParamEscaped(userName) == Encode(userName)

\* The value handed to generateAuthUrl as state.
StateParam(userName) == userName

\* oAuth2Client.generateAuthUrl({access_type, prompt, scope, state}).
generateAuthUrl(userName) ==
    [access_type |-> "offline", prompt |-> "consent", state |-> Encode(StateParam(userName))]

\* GET /authenticate/:name arrives.
RecvAuthenticate(r, u) ==
    /\ phase = "listening"
    /\ Free(r)
    /\ req' = [req EXCEPT ![r] = [Idle EXCEPT !.kind = "authenticate", !.name = u, !.pc = "load"]]
    /\ UNCHANGED <<variant, phase, credFile, credentials, store, issued, saved, aux>>

\* GET /qr/:name arrives.
RecvQr(r, u) ==
    /\ phase = "listening"
    /\ Free(r)
    /\ req' = [req EXCEPT ![r] = [Idle EXCEPT !.kind = "qr", !.name = u, !.pc = "load"]]
    /\ UNCHANGED <<variant, phase, credFile, credentials, store, issued, saved, aux>>

\* A check that forgets state.
MissingParamCodeOnly(code, state) == Falsy(code)

\* A check that also wants a consent redirect to have been sent before.
MissingParamOrNotBegun(code, state) == Falsy(code) \/ Falsy(state) \/ ~issued

\* The check of the parameters at the head of /oauth2callback.
MissingParam(code, state) == Falsy(code) \/ Falsy(state)

\* GET /oauth2callback arrives with the raw query values of code and state.
RecvCallback(r, rawCode, rawState) ==
    /\ phase = "listening"
    /\ Free(r)
    /\ LET code == QueryParam(rawCode)
           state == QueryParam(rawState)
           q == [Idle EXCEPT !.kind = "oauth2callback", !.name = state, !.code = code,
                             !.raw = rawState]
       IN req' = [req EXCEPT ![r] =
                    IF MissingParam(code, state)
                    THEN [q EXCEPT !.pc = "done", !.status = 400]
                    ELSE [q EXCEPT !.pc = "load"]]
    /\ UNCHANGED <<variant, phase, credFile, credentials, store, issued, saved, aux>>

\* The await of createOAuth2ClientForUser and the code up to the next await.
\* The record keeps the client's credentials where the handler reads them
\* (/qr/:name); the other two handlers never look at them.
LoadToken(r) ==
    /\ req[r].pc = "load"
    /\ LET q == req[r]
           client == createOAuth2ClientForUser(store, q.name)
           loaded == [q EXCEPT !.ops = @ \cup {"read"}]
       IN CASE q.kind = "authenticate" ->
                 /\ req' = [req EXCEPT ![r] =
                        [loaded EXCEPT !.pc = "done", !.status = 302,
                                       !.url = generateAuthUrl(q.name)]]
                 /\ issued' = TRUE
            [] q.kind = "oauth2callback" ->
                 /\ req' = [req EXCEPT ![r] = [loaded EXCEPT !.pc = "exchange"]]
                 /\ issued' = issued
            [] q.kind = "qr" ->
                 /\ req' = [req EXCEPT ![r] =
                        IF NotAuthenticated(client)
                        THEN [loaded EXCEPT !.pc = "done", !.status = 400, !.json = "message",
                                            !.client = client]
                        ELSE [loaded EXCEPT !.pc = "list", !.client = client]]
                 /\ issued' = issued
    /\ UNCHANGED <<variant, phase, credFile, credentials, store, saved, aux>>

\* ---------------------------------------------------------- token exchange
\* What fs.writeFileSync / fs.writeFile can do to one file: "ok" writes the
\* text; "eopen" fails before the file is touched; "ewrite" fails after the
\* open with flag 'w' has emptied it.
WriteOutcomes == {"ok", "eopen", "ewrite"}

WriteFile(st, path, tokens, outcome) ==
    CASE outcome = "ok" -> [st EXCEPT ![path] = FileOf(tokens)]
      [] outcome = "eopen" -> st
      [] outcome = "ewrite" -> [st EXCEPT ![path] = Truncated]

\* A catch block that removes the token file of the failed identity.
ExchangeFailedUnlink(st, path) == [st EXCEPT ![path] = NoFile]

\* The catch block of /oauth2callback after getToken threw: it logs and
\* answers 500, and touches no file.
ExchangeFailed(st, path) == st

\* A /oauth2callback whose try block ends before the write.
TryOfBeforeWrite(kind) ==
    CASE kind = "authenticate" -> {"load", "url"}
      [] kind = "oauth2callback" -> {"load", "exchange"}
      [] kind = "qr" -> {"load", "list"}

\* The awaited calls and statements of each handler that stand inside its try
\* block: creating the client ("load"), generateAuthUrl and res.redirect
\* ("url"), getToken ("exchange"), the write of the token file ("write"),
\* getLatestEmails and res.json ("list").
TryOf(kind) ==
    CASE kind = "authenticate" -> {"load", "url"}
      [] kind = "oauth2callback" -> {"load", "exchange", "write"}
      [] kind = "qr" -> {"load", "list"}

\* What becomes of the request q when `site` throws: the catch of its handler
\* answers, or nothing catches the rejection and no answer is sent.
Thrown(q, site, answer) == IF site \in TryOf(q.kind) THEN answer ELSE [q EXCEPT !.pc = "lost"]

\* What becomes of the process then: an unhandled rejection ends it.
PhaseAfterThrow(q, site) == IF site \in TryOf(q.kind) THEN phase ELSE "crashed"

\* A handler that confirms whatever the write did.
WriteStatusAlways200(w) == 200

\* What /oauth2callback answers after the write: res.send (200) when it
\* returned, the catch (500) when it threw.
WriteStatus(w) == IF w = "ok" THEN 200 ELSE 500

\* part_001: getToken settles; on success setCredentials, writeFileSync and
\* res.send run without another await, on any throw the catch answers 500.
ExchangeSync(r) ==
    /\ variant = "part_001"
    /\ req[r].pc = "exchange"
    /\ LET q == [req[r] EXCEPT !.ops = @ \cup {"exchange"}]
           path == getTokenPathForUser(q.name)
       IN \/ /\ req' = [req EXCEPT ![r] =
                    Thrown(q, "exchange", [q EXCEPT !.pc = "done", !.status = 500])]
             /\ phase' = PhaseAfterThrow(q, "exchange")
             /\ store' = ExchangeFailed(store, path)
             /\ saved' = saved
          \/ \E g \in Grants, w \in WriteOutcomes :
                LET answer == [q EXCEPT !.pc = "done",
                                        !.tokens = IF w = "ok" THEN g ELSE EmptyCreds,
                                        !.ops = @ \cup {"write"},
                                        !.status = WriteStatus(w)]
                IN /\ store' = WriteFile(store, path, g, w)
                   /\ saved' = IF w = "ok" THEN saved \cup {q.name} ELSE saved
                   /\ req' = [req EXCEPT ![r] =
                          IF w = "ok" THEN answer ELSE Thrown(q, "write", answer)]
                   /\ phase' = IF w = "ok" THEN phase ELSE PhaseAfterThrow(q, "write")
    /\ UNCHANGED <<variant, credFile, credentials, issued, aux>>

\* part_000: getToken settles; on success the client takes the tokens and the
\* handler awaits fs.writeFile.
ExchangeAsync(r) ==
    /\ variant = "part_000"
    /\ req[r].pc = "exchange"
    /\ LET q == [req[r] EXCEPT !.ops = @ \cup {"exchange"}]
           path == getTokenPathForUser(q.name)
       IN \/ /\ req' = [req EXCEPT ![r] =
                    Thrown(q, "exchange", [q EXCEPT !.pc = "done", !.status = 500])]
             /\ phase' = PhaseAfterThrow(q, "exchange")
             /\ store' = ExchangeFailed(store, path)
          \/ \E g \in Grants :
                /\ req' = [req EXCEPT ![r] = [q EXCEPT !.pc = "write", !.tokens = g]]
                /\ phase' = phase
                /\ store' = store
    /\ UNCHANGED <<variant, credFile, credentials, issued, saved, aux>>

\* part_000: fs.writeFile opens the token file with flag 'w'.
WriteOpen(r) ==
    /\ variant = "part_000"
    /\ req[r].pc = "write"
    /\ LET q == [req[r] EXCEPT !.ops = @ \cup {"write"}]
           path == getTokenPathForUser(q.name)
       IN \/ /\ store' = WriteFile(store, path, q.tokens, "eopen")
             /\ req' = [req EXCEPT ![r] =
                    Thrown(q, "write", [q EXCEPT !.pc = "done", !.status = WriteStatus("eopen"),
                                                 !.tokens = EmptyCreds])]
             /\ phase' = PhaseAfterThrow(q, "write")
          \/ /\ store' = WriteFile(store, path, q.tokens, "ewrite")
             /\ req' = [req EXCEPT ![r] = [q EXCEPT !.pc = "writing"]]
             /\ phase' = phase
    /\ UNCHANGED <<variant, credFile, credentials, issued, saved, aux>>

\* part_000: the data of fs.writeFile is written and the handler responds,
\* or the write fails and the catch answers 500.
WriteData(r) ==
    /\ variant = "part_000"
    /\ req[r].pc = "writing"
    /\ LET q == req[r]
           path == getTokenPathForUser(q.name)
       IN \/ /\ store' = WriteFile(store, path, q.tokens, "ok")
             /\ saved' = saved \cup {q.name}
             /\ req' = [req EXCEPT ![r] = [q EXCEPT !.pc = "done", !.status = WriteStatus("ok")]]
             /\ phase' = phase
          \/ /\ UNCHANGED <<store, saved>>
             /\ req' = [req EXCEPT ![r] =
                    Thrown(q, "write", [q EXCEPT !.pc = "done", !.status = WriteStatus("ewrite"),
                                                 !.tokens = EmptyCreds])]
             /\ phase' = PhaseAfterThrow(q, "write")
    /\ UNCHANGED <<variant, credFile, credentials, issued, aux>>

\* ----------------------------------------------------------------- mailbox
\* The deep link of a record: the fixed prefix and message.id.
DeepLink(id) == <<"https://mail.google.com/mail/u/0/#inbox/", id>>

\* The object pushed for one message, without its constant members.
Record(userName, id) == [person |-> userName, mail |-> DeepLink(id)]

RECURSIVE Records(_, _, _)
\* The loop of getLatestEmails over the listed ids: a message whose detail
\* fetch throws is skipped, the others give one record each, in order.
Records(ids, failing, userName) ==
    IF ids = <<>> THEN <<>>
    ELSE IF Head(ids) \in failing
         THEN Records(Tail(ids), failing, userName)
         ELSE <<Record(userName, Head(ids))>>
              \o Records(Tail(ids), failing, userName)

\* getLatestEmails(auth, userName) after a listing that did not throw.
getLatestEmails(n, failing, userName) ==
    IF n = 0 THEN <<>> ELSE Records([i \in 1..n |-> i], failing, userName)

\* A catch of getLatestEmails that returns an empty result instead of rethrowing.
ListingFailedSwallowed(q) == [q EXCEPT !.pc = "done", !.status = 200, !.json = "array"]

\* The listing threw: getLatestEmails logs and rethrows, and the catch of
\* /qr/:name answers 500 with {message, error}.
ListingFailed(q) == [q EXCEPT !.pc = "done", !.status = 500, !.json = "envelope"]

\* /qr/:name past the gate, the whole call of getLatestEmails in one step (it
\* reads and writes nothing another request sees): the listing throws, or
\* res.json(emails).
FetchEmails(r) ==
    /\ req[r].pc = "list"
    /\ LET q == [req[r] EXCEPT !.ops = @ \cup {"mail"}, !.client = EmptyCreds]
       IN \/ /\ req' = [req EXCEPT ![r] = Thrown(q, "list", ListingFailed(q))]
             /\ phase' = PhaseAfterThrow(q, "list")
          \/ \E n \in 0..MaxMsgs : \E failing \in SUBSET (1..n) :
                /\ req' = [req EXCEPT ![r] =
                       [q EXCEPT !.pc = "done", !.status = 200, !.json = "array",
                                 !.body = getLatestEmails(n, failing, q.name)]]
                /\ phase' = phase
    /\ UNCHANGED <<variant, credFile, credentials, store, issued, saved, aux>>

\* ------------------------------------------------- mailbox, call by call
\* The ids a listing may hold.
MessageIds == 1..MaxListing

\* listResp.data: messages may be missing, else it is a list of distinct ids.
Listings ==
    {[field |-> FALSE, messages |-> <<>>]}
    \cup {[field |-> TRUE, messages |-> m] :
            m \in {x \in UNION {[1..n -> MessageIds] : n \in 0..MaxListing} :
                      \A i, j \in DOMAIN x : x[i] = x[j] => i = j}}

\* The locals of a call that has not listed: auth, messages, the position of
\* the for loop, emailData, and (history) how messages.list settled ("none" before
\* it has, then "ok" or "threw") and the ids whose detail fetch threw.
NoCall ==
    [listed |-> "none", auth |-> EmptyCreds,
     listing |-> [field |-> FALSE, messages |-> <<>>],
     next |-> 1, emailData |-> <<>>, failed |-> {}]

\* A test that looks at the length only.
NoMessagesLengthOnly(l) == l.field /\ Len(l.messages) = 0

\* !messages || messages.length === 0.
NoMessages(l) == ~l.field \/ Len(l.messages) = 0

\* A catch in the loop that throws away what was collected so far.
DetailFailedDropsAll(m, id) ==
    [m EXCEPT !.failed = @ \cup {id}, !.next = @ + 1, !.emailData = <<>>]

\* The catch inside the loop: the error is logged and the loop goes on.
DetailFailed(m, id) == [m EXCEPT !.failed = @ \cup {id}, !.next = @ + 1]

\* emailData.push({...}) at the end of the try inside the loop.
DetailFetched(m, userName, id) ==
    [m EXCEPT !.emailData = Append(@, Record(userName, id)), !.next = @ + 1]

\* gmail.users.messages.list settles and the code runs up to the first
\* messages.get: the listing threw; or there is nothing to fetch and [] is
\* returned and sent; or (for...of over undefined) a TypeError reaches the outer
\* catch; or the loop starts.
ListMessages(r) ==
    /\ req[r].pc = "list"
    /\ LET q == [req[r] EXCEPT !.ops = @ \cup {"mail"}, !.client = EmptyCreds]
       IN \/ /\ req' = [req EXCEPT ![r] = Thrown(q, "list", ListingFailed(q))]
             /\ mail' = [mail EXCEPT ![r] =
                    [NoCall EXCEPT !.listed = "threw", !.auth = req[r].client]]
          \/ \E l \in Listings :
                /\ mail' = [mail EXCEPT ![r] =
                       [NoCall EXCEPT !.listed = "ok", !.listing = l, !.auth = req[r].client]]
                /\ req' = [req EXCEPT ![r] =
                       IF NoMessages(l)
                       THEN [q EXCEPT !.pc = "done", !.status = 200, !.json = "array"]
                       ELSE IF ~l.field THEN Thrown(q, "list", ListingFailed(q))
                       ELSE [q EXCEPT !.pc = "detail"]]
    /\ UNCHANGED <<variant, phase, credFile, credentials, store, issued, saved,
                   authClient, tokenJson, writes>>

\* One round of the loop: gmail.users.messages.get settles and the headers
\* are read (ok), or any of it throws; after the last message emailData is
\* returned and /qr/:name sends it with res.json.
GetMessage(r) ==
    /\ req[r].pc = "detail"
    /\ \E ok \in BOOLEAN :
          LET m == mail[r]
              id == m.listing.messages[m.next]
              after == IF ok THEN DetailFetched(m, req[r].name, id) ELSE DetailFailed(m, id)
          IN /\ mail' = [mail EXCEPT ![r] = after]
             /\ req' = [req EXCEPT ![r] =
                    IF after.next > Len(after.listing.messages)
                    THEN [@ EXCEPT !.pc = "done", !.status = 200, !.json = "array",
                                   !.body = after.emailData]
                    ELSE @]
    /\ UNCHANGED <<variant, phase, credFile, credentials, store, issued, saved,
                   authClient, tokenJson, writes>>

\* ------------------------------------------------ server.js: one client
\* The Google accounts that may consent in authenticate(); a client is known
\* by the refresh token of the account it was made for.
Accounts == {"rtA", "rtB"}

\* The credentials of a client made for account a.
ClientOf(a) == [EmptyCreds EXCEPT !.refresh_token = a]

\* The payload saveCredentials writes, without client_id and client_secret.
Payload(a) == <<Open, <<"type", "authorized_user">>, <<"refresh_token", a>>, Close>>

\* loadSavedCredentialsIfExist: the client of token.json, or null on any
\* failure of the read or of the parse.
loadSavedCredentialsIfExist(f) ==
    IF f.exists /\ Parses(f.data) THEN Member(f.data, "refresh_token") ELSE "null"

\* The catch of /qr/:name: 500 with {message, error}.
QrFailed(q) ==
    [q EXCEPT !.pc = "done", !.status = 500, !.json = "envelope", !.client = EmptyCreds]

\* authClient = client at the end of getAuthClient.
StoreClient(slot, a) == a

\* GET /qr/:name arrives and getAuthClient runs up to its first await: a
\* client in authClient is returned at once, else token.json is read.
RecvQrSingle(r, u) ==
    /\ variant = "server.js"
    /\ phase = "listening"
    /\ Free(r)
    /\ LET q == [Idle EXCEPT !.kind = "qr", !.name = u] IN
       req' = [req EXCEPT ![r] =
                 IF authClient # "null"
                 THEN [q EXCEPT !.pc = "list", !.client = ClientOf(authClient),
                                !.ops = {"cache"}]
                 ELSE [q EXCEPT !.pc = "loadSaved"]]
    /\ mail' = [mail EXCEPT ![r] = NoCall]
    /\ UNCHANGED <<variant, phase, credFile, credentials, store, issued, saved,
                   authClient, tokenJson, writes>>

\* The read of token.json settles: a client restored from it is stored in
\* authClient and used; when there is none authenticate() is started.
LoadSaved(r) ==
    /\ req[r].pc = "loadSaved"
    /\ LET q == [req[r] EXCEPT !.ops = @ \cup {"read"}]
           c == loadSavedCredentialsIfExist(tokenJson)
       IN IF c # "null"
          THEN /\ authClient' = StoreClient(authClient, c)
               /\ req' = [req EXCEPT ![r] = [q EXCEPT !.pc = "list", !.client = ClientOf(c)]]
          ELSE /\ authClient' = authClient
               /\ req' = [req EXCEPT ![r] = [q EXCEPT !.pc = "flow", !.ops = @ \cup {"flow"}]]
    /\ UNCHANGED <<variant, phase, credFile, credentials, store, issued, saved,
                   mail, tokenJson, writes>>

\* authenticate({scopes, keyfilePath}) settles: it rejects (always when
\* credentials.json cannot be used), or some account has consented and
\* saveCredentials begins.
Authenticate(r) ==
    /\ req[r].pc = "flow"
    /\ \/ req' = [req EXCEPT ![r] = QrFailed(@)]
       \/ /\ credFile = "wellformed"
          /\ \E a \in Accounts :
                req' = [req EXCEPT ![r] = [@ EXCEPT !.pc = "save", !.client = ClientOf(a)]]
    /\ UNCHANGED <<variant, phase, credFile, credentials, store, issued, saved, aux>>

\* saveCredentials: credentials.json is read and fs.writeFile opens token.json
\* with flag 'w' (or fails before it is touched).
SaveOpen(r) ==
    /\ req[r].pc = "save"
    /\ \/ /\ tokenJson' = tokenJson
          /\ req' = [req EXCEPT ![r] = QrFailed(@)]
       \/ /\ tokenJson' = Truncated
          /\ req' = [req EXCEPT ![r] = [@ EXCEPT !.pc = "saving"]]
    /\ UNCHANGED <<variant, phase, credFile, credentials, store, issued, saved,
                   mail, authClient, writes>>

\* The data of token.json is written and getAuthClient stores the client in
\* authClient, or the write fails.
SaveData(r) ==
    /\ req[r].pc = "saving"
    /\ \/ /\ UNCHANGED <<tokenJson, authClient, writes>>
          /\ req' = [req EXCEPT ![r] = QrFailed(@)]
       \/ /\ tokenJson' = [exists |-> TRUE, data |-> Payload(req[r].client.refresh_token)]
          /\ writes' = IF writes < MaxWrites THEN writes + 1 ELSE writes
          /\ authClient' = StoreClient(authClient, req[r].client.refresh_token)
          /\ req' = [req EXCEPT ![r] = [@ EXCEPT !.pc = "list", !.ops = @ \cup {"write"}]]
    /\ UNCHANGED <<variant, phase, credFile, credentials, store, issued, saved, mail>>

\* getLatestEmails(auth, name) of server.js in one step, and the answer of
\* /qr/:name: the listing throws (500), or the records are sent.
FetchEmailsSingle(r) ==
    /\ variant = "server.js"
    /\ req[r].pc = "list"
    /\ LET q == [req[r] EXCEPT !.ops = @ \cup {"mail"}]
       IN \/ /\ req' = [req EXCEPT ![r] = [ListingFailed(q) EXCEPT !.client = q.client]]
             /\ mail' = [mail EXCEPT ![r] =
                    [NoCall EXCEPT !.listed = "threw", !.auth = q.client]]
          \/ \E n \in 0..MaxMsgs : \E failing \in SUBSET (1..n) :
                /\ req' = [req EXCEPT ![r] =
                       [q EXCEPT !.pc = "done", !.status = 200, !.json = "array",
                                 !.body = getLatestEmails(n, failing, q.name)]]
                /\ mail' = [mail EXCEPT ![r] =
                       [NoCall EXCEPT !.listed = "ok", !.auth = q.client,
                                      !.listing = [field |-> TRUE, messages |-> [i \in 1..n |-> i]],
                                      !.next = n + 1, !.failed = failing,
                                      !.emailData = getLatestEmails(n, failing, q.name)]]
    /\ UNCHANGED <<variant, phase, credFile, credentials, store, issued, saved,
                   authClient, tokenJson, writes>>

\* ----------------------------------------------------------- specification
\* The raw values a query parameter can arrive with.
RawStates == {Undefined, Empty} \cup {Encode(u) : u \in Users}
RawCodes == {Undefined, <<"c">>}

\* No call of getLatestEmails has begun; server.js is not running.
AuxInit ==
    /\ mail = [r \in Slots |-> NoCall]
    /\ authClient = "null"
    /\ tokenJson = NoFile
    /\ writes = 0

Init ==
    /\ variant \in Variants
    /\ phase = "starting"
    /\ credFile \in {"missing", "malformed", "wellformed"}
    /\ credentials = "null"
    /\ store = [k \in Keys |-> NoFile]
    /\ req = [r \in Slots |-> Idle]
    /\ issued = FALSE
    /\ saved = {}
    /\ AuxInit

\* The handlers' steps that both variants take alike.
Serve ==
    \/ \E r \in Slots, u \in Users : RecvAuthenticate(r, u)
    \/ \E r \in Slots, u \in Users : RecvQr(r, u)
    \/ \E r \in Slots, c \in RawCodes, s \in RawStates : RecvCallback(r, c, s)
    \/ \E r \in Slots : LoadToken(r)
    \/ \E r \in Slots : FetchEmails(r)

Next ==
    \/ Startup
    \/ Serve
    \/ \E r \in Slots : ExchangeSync(r)

Spec == Init /\ [][Next]_vars

\* part_001 listening with no token file, asked for one name only.
InitLive ==
    /\ variant = "part_001"
    /\ phase = "listening"
    /\ credFile = "wellformed"
    /\ credentials = "loaded"
    /\ store = [k \in Keys |-> NoFile]
    /\ req = [r \in Slots |-> Idle]
    /\ issued = FALSE
    /\ saved = {}
    /\ AuxInit

NextLive ==
    \/ \E r \in Slots : RecvAuthenticate(r, UserA)
    \/ \E r \in Slots : RecvQr(r, UserA)
    \/ \E r \in Slots, c \in RawCodes, s \in {Undefined, Encode(UserA)} : RecvCallback(r, c, s)
    \/ \E r \in Slots : LoadToken(r)
    \/ \E r \in Slots : ExchangeSync(r)
    \/ \E r \in Slots : FetchEmails(r)

\* Every awaited call settles: a request that is waiting takes its next step.
Fairness == \A r \in Slots : WF_vars(LoadToken(r) \/ ExchangeSync(r) \/ FetchEmails(r))

\* The handlers of part_001 with every awaited call settling.
SpecLive == InitLive /\ [][NextLive]_vars /\ Fairness

\* part_000 listening, as its handlers presuppose.
InitAsync ==
    /\ variant = "part_000"
    /\ phase = "listening"
    /\ credFile = "wellformed"
    /\ credentials = "loaded"
    /\ store = [k \in Keys |-> NoFile]
    /\ req = [r \in Slots |-> Idle]
    /\ issued = FALSE
    /\ saved = {}
    /\ AuxInit

NextAsync ==
    \/ Serve
    \/ \E r \in Slots : ExchangeAsync(r)
    \/ \E r \in Slots : WriteOpen(r)
    \/ \E r \in Slots : WriteData(r)

SpecAsync == InitAsync /\ [][NextAsync]_vars

\* The names /qr is asked for when the mailbox is taken call by call.
Names == {UserA, UserPct}

\* part_001 listening, a grant on file for UserA (with or without a refresh
\* token) and none for the others.
InitMail ==
    /\ variant = "part_001"
    /\ phase = "listening"
    /\ credFile = "wellformed"
    /\ credentials = "loaded"
    /\ store \in {[[k \in Keys |-> NoFile] EXCEPT ![getTokenPathForUser(UserA)] = FileOf(g)] :
                    g \in Grants}
    /\ req = [r \in Slots |-> Idle]
    /\ issued = FALSE
    /\ saved = {UserA}
    /\ AuxInit

\* GET /qr/:name with getLatestEmails taken one call to the mailbox per step.
NextMail ==
    \/ \E r \in Slots, u \in Names : RecvQr(r, u)
    \/ \E r \in Slots : LoadToken(r)
    \/ \E r \in Slots : ListMessages(r)
    \/ \E r \in Slots : GetMessage(r)

SpecMail == InitMail /\ [][NextMail]_vars

\* server.js listening (it loads nothing before app.listen): token.json may
\* be left from an earlier run, credentials.json may be unusable.
InitSingle ==
    /\ variant = "server.js"
    /\ phase = "listening"
    /\ credFile \in {"missing", "malformed", "wellformed"}
    /\ credentials = "null"
    /\ store = [k \in Keys |-> NoFile]
    /\ req = [r \in Slots |-> Idle]
    /\ issued = FALSE
    /\ saved = {}
    /\ mail = [r \in Slots |-> NoCall]
    /\ authClient = "null"
    /\ tokenJson \in {NoFile} \cup {[exists |-> TRUE, data |-> Payload(a)] : a \in Accounts}
    /\ writes = 0

NextSingle ==
    \/ \E r \in Slots, u \in Names : RecvQrSingle(r, u)
    \/ \E r \in Slots : LoadSaved(r)
    \/ \E r \in Slots : Authenticate(r)
    \/ \E r \in Slots : SaveOpen(r)
    \/ \E r \in Slots : SaveData(r)
    \/ \E r \in Slots : FetchEmailsSingle(r)

SpecSingle == InitSingle /\ [][NextSingle]_vars

TypeOK ==
    /\ variant \in Variants \cup {"server.js"}
    /\ authClient \in {"null"} \cup Accounts
    /\ writes \in 0..MaxWrites
    /\ phase \in {"starting", "listening", "exited", "crashed"}
    /\ credentials \in {"null", "loaded"}
    /\ \A k \in Keys : store[k] \in Files
    /\ saved \subseteq Users
    /\ issued \in BOOLEAN
    /\ \A r \in Slots : req[r].status \in {0, 200, 302, 400, 500}
    /\ \A r \in Slots : req[r].json \in {"none", "array", "message", "envelope"}
    /\ \A r \in Slots :
          /\ mail[r].listing \in Listings
          /\ mail[r].listed \in {"none", "ok", "threw"}
          /\ mail[r].next \in 1..(Len(mail[r].listing.messages) + 1)
          /\ mail[r].failed \subseteq MessageIds

\* ------------------------------------------------------------------ claims
\* The request of slot r takes a step.
Steps(r) == req'[r] # req[r]

\* The request of slot r responds in this step.
Responds(r) == req[r].pc # "done" /\ req'[r].pc = "done"

\* Slot o holds the finished /authenticate/{u}, answered with the redirect.
Redirected(o, u) ==
    req[o].kind = "authenticate" /\ req[o].pc = "done" /\ req[o].status = 302 /\ req[o].name = u

\* Whether the client restored for u from the files st passes the gate of /qr.
Granted(st, u) == ~NotAuthenticated(createOAuth2ClientForUser(st, u))

\* C1: a GET /qr/{u} for an identity u under which no grant was ever written
\* is answered 400 and never reaches getLatestEmails, whatever was done for
\* other identities (a request past its load is finished, with 400, and made
\* no mailbox call).
C1_NeverSavedIsNotAuthorized ==
    \A r \in Slots :
        (req[r].kind = "qr" /\ req[r].pc # "load" /\ req[r].name \notin saved)
        => (req[r].pc = "done" /\ req[r].status = 400 /\ "mail" \notin req[r].ops)

C3_CallbackLeavesOthersAlone ==
    [][\A r \in Slots, u1 \in Users :
          (req[r].kind = "oauth2callback" /\ Steps(r) /\ req[r].name # u1)
          => createOAuth2ClientForUser(store', u1) = createOAuth2ClientForUser(store, u1)]_vars

\* C4: a /oauth2callback whose code or state is missing or empty is finished
\* with 400 and has read no token file, exchanged no code and written no file.
C4_MissingParamIs400 ==
    \A r \in Slots :
        (req[r].kind = "oauth2callback" /\ (Falsy(req[r].code) \/ Falsy(req[r].name)))
        => (req[r].pc = "done" /\ req[r].status = 400 /\ req[r].ops = {})

\* C4 witness: a callback with a code and an empty state was answered 400
\* while the other slot holds one with no code at all, and a token file
\* exists that they could have read.
C4_Witness ==
    \E r, o \in Slots :
        /\ req[r].kind = "oauth2callback" /\ req[r].status = 400
        /\ req[r].name = Empty /\ req[r].code = <<"c">>
        /\ req[o].kind = "oauth2callback" /\ req[o].status = 400
        /\ req[o].code = Undefined
        /\ store # [k \in Keys |-> NoFile]

\* C5: a /oauth2callback with code and state present is never turned away
\* before the exchange (no 400, and 500 only after the exchange was tried),
\* whatever /authenticate requests came before; when it answers 200 the
\* returned grant is in the file derived from the literal state, every other
\* file is as it was, and state is recorded as saved.
C5_CallbackBindsToLiteralState ==
    [][\A r \in Slots :
          /\ (req'[r].kind = "oauth2callback" /\ ~Falsy(req'[r].code) /\ ~Falsy(req'[r].name))
             => (/\ req'[r].status # 400
                 /\ req'[r].status = 500 => "exchange" \in req'[r].ops)
          /\ (Responds(r) /\ req'[r].kind = "oauth2callback" /\ req'[r].status = 200)
             => (/\ store'[getTokenPathForUser(req'[r].name)] = FileOf(req'[r].tokens)
                 /\ \A k \in Keys :
                       k # getTokenPathForUser(req'[r].name) => store'[k] = store[k]
                 /\ req'[r].name \in saved')]_vars

\* C5 witness: a callback has answered 200 and its grant is stored under its
\* state although no consent redirect was ever sent.
C5_Witness ==
    \E r \in Slots :
        /\ ~issued
        /\ req[r].kind = "oauth2callback" /\ req[r].pc = "done" /\ req[r].status = 200
        /\ store[getTokenPathForUser(req[r].name)] = FileOf(req[r].tokens)

\* C6: once the client restored for u passes the gate of /qr/{u}, it passes
\* it after every later step of any request.
C6_GrantedStaysGranted ==
    [][\A u \in Users : Granted(store, u) => Granted(store', u)]_vars

C8_RejectedExchangeKeepsStore ==
    [][\A r \in Slots :
          (Responds(r) /\ req'[r].kind = "oauth2callback"
           /\ req'[r].ops = {"read", "exchange"})
          => (req'[r].status = 500 /\ store' = store /\ saved' = saved)]_vars

\* C8 witness: a callback was rejected for an identity that holds a grant, and
\* the grant is still there.
C8_Witness ==
    \E r \in Slots :
        /\ req[r].kind = "oauth2callback" /\ req[r].pc = "done" /\ req[r].status = 500
        /\ req[r].ops = {"read", "exchange"}
        /\ Granted(store, req[r].name)
        /\ req[r].name \in saved

\* C9: once the startup load is over, the process has exited if and only if
\* credentials.json is missing or malformed, and a listening process holds
\* the registration.
C9_ExitsIffConfigBad ==
    phase # "starting"
    => (/\ phase = "exited" <=> credFile # "wellformed"
        /\ phase = "listening" => credentials = "loaded")

\* C10: /authenticate/{u} answers 302 with a consent URL that asks for offline
\* access and forced consent and whose state parameter reads back as u; a
\* callback that arrives with that state parameter unchanged works under the
\* identity u and the token path of u, and what it saves is saved under u.
C10_StateRoundTrip ==
    \A a \in Slots :
        (req[a].kind = "authenticate" /\ req[a].pc = "done")
        => (/\ req[a].status = 302
            /\ req[a].url.access_type = "offline"
            /\ req[a].url.prompt = "consent"
            /\ QueryParam(req[a].url.state) = req[a].name
            /\ \A c \in Slots :
                  (req[c].kind = "oauth2callback" /\ req[c].raw = req[a].url.state)
                  => (/\ req[c].name = req[a].name
                      /\ getTokenPathForUser(req[c].name) = getTokenPathForUser(req[a].name)
                      /\ req[c].status = 200 => req[a].name \in saved))

\* C10 witness: the redirect for the identity with "/" and ".." in it was
\* sent, and a callback carrying its state parameter has answered 200.
C10_Witness ==
    \E a, c \in Slots :
        /\ Redirected(a, UserDots)
        /\ req[a].url.state # req[a].name
        /\ req[c].kind = "oauth2callback" /\ req[c].raw = req[a].url.state
        /\ req[c].status = 200

\* The call of getLatestEmails of slot r: /qr/:name got past the gate.
Called(r) == req[r].kind = "qr" /\ "mail" \in req[r].ops

\* The listed ids the loop of slot r has been through whose fetch did not throw.
Kept(m) ==
    SelectSeq(SubSeq(m.listing.messages, 1, m.next - 1), LAMBDA id : id \notin m.failed)

\* C11: for a listing of n >= 1 messages and any set of them whose detail
\* fetch (or header or date handling) throws, getLatestEmails does not fail:
\* at every round of the loop emailData holds exactly one record per message
\* gone through that did not throw, in listing order, with person the name
\* asked for and the deep link of that message's id; after the last round
\* exactly that is returned and sent with 200.
C11_OneRecordPerFetchedMessage ==
    \A r \in Slots :
        (Called(r) /\ mail[r].listed = "ok" /\ ~NoMessages(mail[r].listing))
        => LET m == mail[r]
               kept == Kept(m)
           IN /\ m.emailData = [i \in 1..Len(kept) |-> Record(req[r].name, kept[i])]
              /\ m.failed \subseteq {m.listing.messages[i] : i \in 1..(m.next - 1)}
              /\ IF m.next <= Len(m.listing.messages)
                 THEN req[r].pc = "detail" /\ req[r].status = 0
                 ELSE /\ req[r].pc = "done" /\ req[r].status = 200 /\ req[r].json = "array"
                      /\ req[r].body = m.emailData

\* C11 witness: three messages were listed, not in the order of their ids,
\* the fetch of the second threw, and the records of the first and the third
\* were sent.
C11_Witness ==
    \E r \in Slots :
        /\ Called(r) /\ req[r].pc = "done" /\ req[r].status = 200
        /\ mail[r].listing.messages = <<3, 1, 2>>
        /\ mail[r].failed = {1}
        /\ req[r].body = <<Record(req[r].name, 3), Record(req[r].name, 2)>>

\* C12: a GET /qr/{name} past the gate whose listing has no messages (an empty
\* list, or no messages member), or whose listed messages all threw, answers
\* 200 with res.json of the empty array.
C12_NothingToShowIsEmptyArray ==
    \A r \in Slots :
        (/\ Called(r) /\ mail[r].listed = "ok"
         /\ \/ ~mail[r].listing.field
            \/ mail[r].listing.messages = <<>>
            \/ /\ mail[r].next > Len(mail[r].listing.messages)
               /\ mail[r].failed = {mail[r].listing.messages[i] :
                                      i \in 1..Len(mail[r].listing.messages)})
        => (/\ req[r].pc = "done" /\ req[r].status = 200
            /\ req[r].json = "array" /\ req[r].body = <<>>)

\* C12 witness: one request was answered for a listing without a messages
\* member, another for a listing of two messages that both threw.
C12_Witness ==
    \E r, o \in Slots :
        /\ Called(r) /\ req[r].pc = "done" /\ mail[r].listed = "ok"
        /\ ~mail[r].listing.field /\ req[r].status = 200
        /\ Called(o) /\ req[o].pc = "done" /\ mail[o].listed = "ok"
        /\ Len(mail[o].listing.messages) = 2 /\ Cardinality(mail[o].failed) = 2
        /\ req[o].body = <<>>

\* C17: when messages.list throws, no messages.get was made (the loop never
\* started), nothing was collected, and the request is answered 500 with
\* {message, error} and an empty array is not sent.
C17_ListingFailureIs500 ==
    \A r \in Slots :
        (Called(r) /\ mail[r].listed = "threw")
        => (/\ req[r].pc = "done" /\ req[r].status = 500 /\ req[r].json = "envelope"
            /\ req[r].body = <<>>
            /\ mail[r].next = 1 /\ mail[r].emailData = <<>> /\ mail[r].failed = {})

\* C17 witness: a listing threw for one request while another request for the
\* same name was answered with a record.
C17_Witness ==
    \E r, o \in Slots :
        /\ Called(r) /\ mail[r].listed = "threw" /\ req[r].status = 500
        /\ Called(o) /\ req[o].name = req[r].name /\ req[o].status = 200
        /\ Len(req[o].body) = 1

\* The request of slot r found a client in authClient when it arrived.
Cached(r) == req[r].kind = "qr" /\ "cache" \in req[r].ops

\* The request of slot r is between finding no restorable token.json and the
\* assignment of authClient.
InFlow(r) == req[r].pc \in {"flow", "save", "saving"}

\* C13: in server.js every GET /qr/{name} that arrives after a client was
\* stored in authClient is served without a read of token.json, without
\* authenticate() and without a write, and all such requests, whatever their
\* names, are served with one and the same client: given the same listing and
\* the same failing fetches their records differ in the person member only.
C13_StoredClientServesEveryLaterRequest ==
    \A r \in Slots :
        Cached(r)
        => /\ req[r].ops \subseteq {"cache", "mail"}
           /\ req[r].pc \in {"list", "done"}
           /\ \A o \in Slots :
                 Cached(o)
                 => /\ req[r].client = req[o].client
                    /\ (/\ req[r].status = 200 /\ req[o].status = 200
                        /\ mail[r].listing = mail[o].listing
                        /\ mail[r].failed = mail[o].failed)
                       => /\ Len(req[r].body) = Len(req[o].body)
                          /\ \A i \in 1..Len(req[r].body) :
                                /\ req[r].body[i].mail = req[o].body[i].mail
                                /\ req[r].body[i].person = req[r].name

\* C19: in server.js at most one request at a time is between finding
\* authClient and token.json empty and the assignment of authClient, so
\* authenticate() is not running twice at once, and token.json is written at
\* most once in the life of the process.
C19_OneFlowOneWrite ==
    /\ Cardinality({r \in Slots : InFlow(r)}) <= 1
    /\ writes <= 1

\* The token file of u exists but holds no JSON text.
Unparsable(st, u) ==
    st[getTokenPathForUser(u)].exists /\ ~Parses(st[getTokenPathForUser(u)].data)

\* C14: when the token file of u exists but is not valid JSON, the load of a
\* request for u does not treat it as absent: /qr/{u} does not answer 400 and
\* /authenticate/{u} does not send the consent redirect.
C14_UnparsableGrantIsNotAbsence ==
    [][\A r \in Slots :
          (req[r].pc = "load" /\ Steps(r) /\ Unparsable(store, req[r].name))
          => /\ req[r].kind = "qr" => req'[r].status # 400
             /\ req[r].kind = "authenticate" => req'[r].status # 302]_vars

\* C15: every name gets a client (the grant on file when it parses, no grant
\* otherwise); a step of /authenticate or /qr changes no token file; and a
\* step that changes a token file is the answer 200 of a /oauth2callback and
\* changes only the file keyed by its state.
C15_OnlySuccessfulCallbackChangesStore ==
    [][/\ \A u \in Users : createOAuth2ClientForUser(store, u) \in Grants \cup {EmptyCreds}
       /\ \A r \in Slots :
             (Steps(r) /\ req[r].kind \in {"authenticate", "qr"}) => store' = store
       /\ store' # store
          => \E r \in Slots :
                /\ req[r].kind = "oauth2callback" /\ Steps(r)
                /\ req'[r].pc = "done" /\ req'[r].status = 200
                /\ \A k \in Keys :
                      k # getTokenPathForUser(req[r].name) => store'[k] = store[k]]_vars

\* The write of the callback q has completed: the token file of its state
\* holds the grant the exchange returned.
WriteCompleted(q, st) ==
    q.tokens \in Grants /\ st[getTokenPathForUser(q.name)] = FileOf(q.tokens)

\* C16: a /oauth2callback answers 200 only in the step in which its write
\* completes, after it has loaded and exchanged; a callback that got to the
\* write and whose write did not complete answers 500.
C16_RespondsAfterWrite ==
    [][\A r \in Slots :
          (Responds(r) /\ req'[r].kind = "oauth2callback")
          => /\ req'[r].status = 200
                => (/\ {"read", "exchange", "write"} \subseteq req'[r].ops
                    /\ req[r].pc \in {"exchange", "writing"}
                    /\ WriteCompleted(req'[r], store'))
             /\ ("write" \in req'[r].ops /\ ~WriteCompleted(req'[r], store'))
                => req'[r].status = 500]_vars

\* C16 witness: one callback was answered 500 after its write failed and left
\* the file empty, another was answered 200 with its grant on file.
C16_Witness ==
    \E r, o \in Slots :
        /\ req[r].kind = "oauth2callback" /\ req[r].pc = "done" /\ req[r].status = 500
        /\ "write" \in req[r].ops /\ store[getTokenPathForUser(req[r].name)] = Truncated
        /\ req[o].kind = "oauth2callback" /\ req[o].pc = "done" /\ req[o].status = 200
        /\ WriteCompleted(req[o], store)

\* The request of slot r has arrived and is not answered.
InFlight(r) == req[r].pc \notin {"idle", "done"}

\* The answers a handler can send.
Answers(kind) ==
    CASE kind = "authenticate" -> {302, 500}
      [] kind = "oauth2callback" -> {200, 400, 500}
      [] kind = "qr" -> {200, 400, 500}

\* C18: once the process listens it goes on listening whatever a store read
\* or write, a token exchange or a listing does; no request is left without
\* an answer by a throw; a request is answered with one of the statuses of
\* its handler, and once answered it takes no further step (the next step of
\* its slot is the arrival of another request); and, every awaited call
\* settling, each request in flight is answered.
C18_EveryRequestIsAnswered ==
    /\ [][/\ phase = "listening" => phase' = "listening"
          /\ \A r \in Slots :
                /\ req'[r].pc # "lost"
                /\ Responds(r) => req'[r].status \in Answers(req'[r].kind)
                /\ (req[r].pc = "done" /\ Steps(r))
                   => (req'[r].ops = {} /\ req'[r].pc \in {"load", "done"})]_vars
    /\ \A r \in Slots : InFlight(r) ~> (req[r].pc = "done")

\* C18 witness: the process listens after a callback was answered 500 because
\* its write failed, and a /qr that came later was answered 500 because its
\* listing failed.
C18_Witness ==
    \E r, o \in Slots :
        /\ phase = "listening"
        /\ req[r].kind = "oauth2callback" /\ req[r].pc = "done" /\ req[r].status = 500
        /\ "write" \in req[r].ops
        /\ req[o].kind = "qr" /\ req[o].pc = "done" /\ req[o].status = 500
        /\ "mail" \in req[o].ops

====
